---- MODULE Spec2Model ----
(***************************************************************************)
(* Model of the dioniceOS gate/commit adapter                              *)
(* (overlay/unified_5d_cube/src/interlock.rs) and of the unified           *)
(* cognitive engine (apollyon-mef-bridge/src/unified/cognitive_engine.rs). *)
(*                                                                         *)
(* Numbers.  The code computes in f64.  The model computes in exact real   *)
(* arithmetic on a grid:                                                   *)
(*   - a state component is an integer count of grid units; for the        *)
(*     interlock adapter one unit is 0.1, so 1.0 is 10 and 0.9 is 9;       *)
(*   - a Euclidean length sqrt(n) is kept as its radicand n, and compared  *)
(*     through squares;                                                    *)
(*   - a dimensionless threshold is a fraction <<a, b>> with b > 0.        *)
(* Rounding of f64 operations is not modelled.                             *)
(***************************************************************************)
EXTENDS Integers, Sequences, FiniteSets, TLC

VARIABLES
    config,       \* InterlockAdapter.config (interlock.rs:60)
    gate_call,    \* the last InterlockAdapter::evaluate_gate call: arguments and result
    clock,        \* the wall clock read by chrono::Utc::now() (interlock.rs:184)
    commit_prev,  \* the prepare_commit call before the last one
    commit_last,  \* the last prepare_commit call: arguments and CommitData
    engine_call,  \* the last call on the UnifiedCognitiveEngine: arguments and result
    stored,       \* what the external KnowledgeStore has been handed (put)
    engine,       \* the fields of one UnifiedCognitiveEngine (cognitive_engine.rs:57-63)
    runs,         \* the process calls made on that engine, in order: input and result
    loop          \* the guidance/condense loop on one adapter: state and last gate result

vars == <<config, gate_call, clock, commit_prev, commit_last, engine_call, stored,
          engine, runs, loop>>

None == [none |-> TRUE]

-----------------------------------------------------------------------------
(* Bounds of the model *)

\* state components range over -MaxCoord..MaxCoord grid units
MaxCoord == 10
\* the wall clock runs over 0..MaxClock
MaxClock == 2
\* t_final ranges over -1..MaxTFinal, counted in half steps (h/2 = 0.005)
MaxTFinal == 4

-----------------------------------------------------------------------------
(* 5D vectors *)

Dims == 1..5

Zero5 == <<0, 0, 0, 0, 0>>

\* sum over the five components, as the `for i in 0..5` loops do
Sum5(v) == v[1] + v[2] + v[3] + v[4] + v[5]

\* TrichterState5D::norm() squared: the sum of the squared components
NormSq(s) == Sum5([i \in Dims |-> s[i] * s[i]])

\* the states the adapter is called with
GateStates ==
    { <<a, b, 0, 0, c>> : a \in -MaxCoord..MaxCoord, b \in -1..1, c \in 0..1 }

-----------------------------------------------------------------------------
(* InterlockConfig *)

\* InterlockConfig::default(): gate_phi_threshold 0.5 is <<1, 2>>,
\* gate_delta_pi_max 0.1 is 1 grid unit
InterlockConfigDefault ==
    [ seed |-> 42,
      gate_phi_threshold |-> <<1, 2>>,
      gate_delta_pi_max |-> 1,
      enable_logging |-> TRUE,
      shadow_mode |-> TRUE ]

\* the threshold configurations the adapter is constructed with
GateConfigs ==
    { [ InterlockConfigDefault EXCEPT !.gate_phi_threshold = t,
                                      !.gate_delta_pi_max = m ] :
        t \in { <<-1, 2>>, <<0, 1>>, <<1, 2>>, <<1, 1>> }, m \in 0..2 }

-----------------------------------------------------------------------------
(* SimpleProofOfResonance and the gate *)

\* compute_path_invariance: sqrt of the summed squared differences;
\* the value is sqrt(root) grid units
compute_path_invariance(prev, curr) ==
    [ root |-> Sum5([i \in Dims |-> (curr[i] - prev[i]) * (curr[i] - prev[i])]) ]

\* a bug: the zero test needs both squared norms to be 0.0, so a single zero
\* vector reaches the division, 0.0 / 0.0
compute_alignment_both_zero(prev, curr) ==
    LET dot       == Sum5([i \in Dims |-> prev[i] * curr[i]])
        norm_prev == NormSq(prev)
        norm_curr == NormSq(curr)
    IN  IF norm_prev = 0 /\ norm_curr = 0
        THEN [ num |-> 0, rad |-> 1 ]
        ELSE [ num |-> dot, rad |-> norm_prev * norm_curr ]

\* compute_alignment: 0.0 when either squared norm is 0.0, else
\* dot / (sqrt(norm_prev) * sqrt(norm_curr)); the value is num / sqrt(rad)
compute_alignment(prev, curr) ==
    LET dot       == Sum5([i \in Dims |-> prev[i] * curr[i]])
        norm_prev == NormSq(prev)
        norm_curr == NormSq(curr)
    IN  IF norm_prev = 0 \/ norm_curr = 0
        THEN [ num |-> 0, rad |-> 1 ]
        ELSE [ num |-> dot, rad |-> norm_prev * norm_curr ]

\* compute_lyapunov_delta: curr.norm() - prev.norm();
\* the value is sqrt(curr) - sqrt(prev)
compute_lyapunov_delta(prev, curr) ==
    [ curr |-> NormSq(curr), prev |-> NormSq(prev) ]

\* delta_pi <= max, for max in grid units:  sqrt(root) <= max
LeqMax(delta_pi, max) == max >= 0 /\ delta_pi.root <= max * max

\* phi >= a/b:  num / sqrt(rad) >= a / b,  that is  num * b >= a * sqrt(rad)
GeqThreshold(phi, thr) ==
    LET l == phi.num * thr[2]
        r == thr[1]
    IN  IF l >= 0
        THEN r <= 0 \/ l * l >= r * r * phi.rad
        ELSE r < 0 /\ l * l <= r * r * phi.rad

\* delta_v < 0.0:  sqrt(curr) < sqrt(prev)
IsNegative(delta_v) == delta_v.curr < delta_v.prev

\* a bug: the validity test with a strict bound on delta_pi
evaluate_gate_strict(cfg, state_prev, state_curr) ==
    LET delta_pi  == compute_path_invariance(state_prev, state_curr)
        phi       == compute_alignment(state_prev, state_curr)
        delta_v   == compute_lyapunov_delta(state_prev, state_curr)
        por_valid == /\ LeqMax(delta_pi, cfg.gate_delta_pi_max)
                     /\ delta_pi.root # cfg.gate_delta_pi_max * cfg.gate_delta_pi_max
                     /\ GeqThreshold(phi, cfg.gate_phi_threshold)
        proof     == [ delta_pi |-> delta_pi, phi |-> phi,
                       delta_v |-> delta_v, por_valid |-> por_valid ]
    IN  [ decision |-> IF proof.por_valid /\ IsNegative(proof.delta_v)
                       THEN "FIRE" ELSE "HOLD",
          proof |-> proof ]

\* a bug: the decision ignores the Lyapunov delta
evaluate_gate_no_lyapunov(cfg, state_prev, state_curr) ==
    LET delta_pi  == compute_path_invariance(state_prev, state_curr)
        phi       == compute_alignment(state_prev, state_curr)
        delta_v   == compute_lyapunov_delta(state_prev, state_curr)
        por_valid == /\ LeqMax(delta_pi, cfg.gate_delta_pi_max)
                     /\ GeqThreshold(phi, cfg.gate_phi_threshold)
        proof     == [ delta_pi |-> delta_pi, phi |-> phi,
                       delta_v |-> delta_v, por_valid |-> por_valid ]
    IN  [ decision |-> IF proof.por_valid THEN "FIRE" ELSE "HOLD",
          proof |-> proof ]

\* InterlockAdapter::evaluate_gate: (decision, proof)
evaluate_gate(cfg, state_prev, state_curr) ==
    LET delta_pi  == compute_path_invariance(state_prev, state_curr)
        phi       == compute_alignment(state_prev, state_curr)
        delta_v   == compute_lyapunov_delta(state_prev, state_curr)
        por_valid == /\ LeqMax(delta_pi, cfg.gate_delta_pi_max)
                     /\ GeqThreshold(phi, cfg.gate_phi_threshold)
        proof     == [ delta_pi |-> delta_pi, phi |-> phi,
                       delta_v |-> delta_v, por_valid |-> por_valid ]
    IN  [ decision |-> IF proof.por_valid /\ IsNegative(proof.delta_v)
                       THEN "FIRE" ELSE "HOLD",
          proof |-> proof ]

-----------------------------------------------------------------------------
(* The adapter's gate as a state machine *)

\* InterlockAdapter::new(config), and the arguments of the call to come
InitGate ==
    /\ config \in GateConfigs
    /\ gate_call \in [ prev : GateStates, curr : GateStates, result : {None} ]
    /\ clock = 0
    /\ commit_prev = None
    /\ commit_last = None
    /\ engine_call = None
    /\ stored = {}
    /\ engine = None
    /\ runs = <<>>
    /\ loop = None

\* the call adapter.evaluate_gate(&prev, &curr, _)
EvaluateGate ==
    /\ gate_call # None
    /\ gate_call.result = None
    /\ gate_call' = [ gate_call EXCEPT
           !.result = evaluate_gate(config, gate_call.prev, gate_call.curr) ]
    /\ UNCHANGED <<config, clock, commit_prev, commit_last, engine_call, stored,
                   engine, runs, loop>>

NextGate == EvaluateGate

SpecGate == InitGate /\ [][NextGate]_vars

-----------------------------------------------------------------------------
(* Claims about InterlockAdapter::evaluate_gate *)

\* evaluate_gate has returned
GateReturned == gate_call # None /\ gate_call.result # None

\* C1: evaluate_gate returns FIRE exactly when the proof it returns has
\* por_valid = true and delta_v < 0, returns HOLD in the three other
\* combinations, and returns no third decision value.
C1_GateTruthTable ==
    GateReturned =>
        LET r == gate_call.result
        IN  /\ r.decision \in {"FIRE", "HOLD"}
            /\ (r.decision = "FIRE") <=>
                   (r.proof.por_valid /\ IsNegative(r.proof.delta_v))
            /\ ~(r.proof.por_valid /\ IsNegative(r.proof.delta_v)) =>
                   r.decision = "HOLD"

\* C1 witness: a call that returned FIRE under a non-default configuration,
\* its proof valid and its energy delta negative
C1_Witness ==
    /\ GateReturned
    /\ config # InterlockConfigDefault
    /\ gate_call.result.decision = "FIRE"
    /\ gate_call.result.proof.por_valid
    /\ IsNegative(gate_call.result.proof.delta_v)

\* a valid proof whose energy delta is not negative: HOLD
C1_ValidNotContracting ==
    /\ GateReturned
    /\ gate_call.result.proof.por_valid
    /\ ~IsNegative(gate_call.result.proof.delta_v)
    /\ gate_call.result.decision = "HOLD"

\* an invalid proof whose energy delta is negative: HOLD
C1_InvalidContracting ==
    /\ GateReturned
    /\ ~gate_call.result.proof.por_valid
    /\ IsNegative(gate_call.result.proof.delta_v)
    /\ gate_call.result.decision = "HOLD"

\* C2: the proof's validity flag is (delta_pi <= gate_delta_pi_max) and
\* (phi >= gate_phi_threshold), both inclusive: a transition whose delta_pi is
\* exactly the maximum and whose phi reaches the minimum is valid, and
\* Scenario B (prev = (1,0,0,0,0), curr = (0.9,0,0,0,0), thresholds 0.1 and
\* 0.5) is valid and FIRE.
C2_ValidityInclusive ==
    GateReturned =>
        LET r  == gate_call.result
            dp == Sum5([i \in Dims |-> (gate_call.curr[i] - gate_call.prev[i])
                                  * (gate_call.curr[i] - gate_call.prev[i])])
            m  == config.gate_delta_pi_max
        IN  /\ r.proof.por_valid <=>
                   ( /\ LeqMax(r.proof.delta_pi, config.gate_delta_pi_max)
                     /\ GeqThreshold(r.proof.phi, config.gate_phi_threshold) )
            /\ ( /\ dp = m * m
                 /\ GeqThreshold(r.proof.phi, config.gate_phi_threshold) )
               => r.proof.por_valid
            /\ ( /\ config = InterlockConfigDefault
                 /\ gate_call.prev = <<10, 0, 0, 0, 0>>
                 /\ gate_call.curr = <<9, 0, 0, 0, 0>> )
               => r.proof.por_valid /\ r.decision = "FIRE"

\* C2 witness: Scenario B under the default thresholds, delta_pi exactly the
\* maximum, phi = 1, valid, FIRE
C2_Witness ==
    /\ GateReturned
    /\ config = InterlockConfigDefault
    /\ gate_call.prev = <<10, 0, 0, 0, 0>>
    /\ gate_call.curr = <<9, 0, 0, 0, 0>>
    /\ gate_call.result.proof.delta_pi.root
           = config.gate_delta_pi_max * config.gate_delta_pi_max
    /\ gate_call.result.proof.phi = [ num |-> 90, rad |-> 8100 ]
    /\ gate_call.result.proof.por_valid
    /\ gate_call.result.decision = "FIRE"

-----------------------------------------------------------------------------
(* prepare_commit *)

\* An f64 handed in by the caller as a decimal: tenths / 10 + e11 / 10^11.
\* The eleventh decimal digit e11 is below what {:.10} prints.
Dec(t, k) == [ tenths |-> t, e11 |-> k ]

\* format!("{:?}", state.as_array()): the shortest text that reads back as the
\* same five numbers, one text per array
DebugFmt(state) == << [ debug |-> state ] >>

\* format!("{:.10}", proof.phi): ten decimal digits, the eleventh rounded away
Format10(x) == << [ tenths |-> x.tenths, e10 |-> IF x.e11 >= 5 THEN 1 ELSE 0 ] >>

\* format!("{}", self.config.seed)
DisplayFmt(seed) == << [ display |-> seed ] >>

\* Sha256 over the bytes it was fed, printed as hex: collision-resistant, so
\* the digest stands for the text hashed
Sha256Hex(text) == [ sha256 |-> text ]

\* a bug: the timestamp goes into the hash
prepare_commit_hash_timestamp(cfg, state, proof, now) ==
    LET fed  == DebugFmt(state) \o Format10(proof.phi) \o DisplayFmt(cfg.seed)
                    \o << [ display |-> now ] >>
        hash == Sha256Hex(fed)
    IN  [ state |-> state, proof |-> proof, commit_hash |-> hash, timestamp |-> now ]

\* InterlockAdapter::prepare_commit; now is what chrono::Utc::now() returns
prepare_commit(cfg, state, proof, now) ==
    LET fed  == DebugFmt(state) \o Format10(proof.phi) \o DisplayFmt(cfg.seed)
        hash == Sha256Hex(fed)
    IN  [ state |-> state, proof |-> proof, commit_hash |-> hash, timestamp |-> now ]

\* the states prepare_commit is called with
CommitStates == { Zero5, <<MaxCoord, 0, 0, 0, 0>>, <<MaxCoord - 1, 0, 0, 0, 1>> }

\* the proofs prepare_commit is called with: any SimpleProofOfResonance the
\* caller builds (its fields are public)
CommitProofs ==
    { [ delta_pi |-> Dec(o[1], 0), phi |-> phi, delta_v |-> Dec(o[2], 0),
        por_valid |-> o[3] ] :
        phi \in { Dec(5, 0), Dec(5, 4), Dec(5, 6), Dec(10, 0) },
        o \in { <<1, -1, TRUE>>, <<3, 2, FALSE>> } }

\* the configurations the adapter is constructed with: two seeds
CommitConfigs == { [ InterlockConfigDefault EXCEPT !.seed = sd ] : sd \in { 42, 7 } }

InitCommit ==
    /\ config \in CommitConfigs
    /\ gate_call = None
    /\ clock = 0
    /\ commit_prev = None
    /\ commit_last = None
    /\ engine_call = None
    /\ stored = {}
    /\ engine = None
    /\ runs = <<>>
    /\ loop = None

\* a call adapter.prepare_commit(&state, &proof); two calls are followed
PrepareCommit ==
    /\ commit_prev = None
    /\ \E state \in CommitStates, proof \in CommitProofs :
           commit_last' = [ seed |-> config.seed,
                            data |-> prepare_commit(config, state, proof, clock) ]
    /\ commit_prev' = commit_last
    /\ UNCHANGED <<config, gate_call, clock, engine_call, stored,
                   engine, runs, loop>>

\* wall-clock time passes
Tick ==
    /\ clock < MaxClock
    /\ clock' = clock + 1
    /\ UNCHANGED <<config, gate_call, commit_prev, commit_last, engine_call, stored,
                   engine, runs, loop>>

\* InterlockAdapter::new(config) with another configuration
NewAdapter ==
    /\ config' \in CommitConfigs \ {config}
    /\ UNCHANGED <<gate_call, clock, commit_prev, commit_last, engine_call, stored,
                   engine, runs, loop>>

NextCommit == PrepareCommit \/ Tick \/ NewAdapter

SpecCommit == InitCommit /\ [][NextCommit]_vars

\* C8: the commit digest is a function of (state, proof.phi, seed) only: two
\* calls with equal state, equal phi and equal seed return the same digest,
\* whatever the timestamps, the order of the calls and the other proof fields;
\* the timestamp is stored beside the digest.
C8_DigestDeterministic ==
    (commit_prev # None /\ commit_last # None) =>
        LET a == commit_prev
            b == commit_last
        IN  /\ ( /\ a.data.state = b.data.state
                 /\ a.data.proof.phi = b.data.proof.phi
                 /\ a.seed = b.seed )
               => a.data.commit_hash = b.data.commit_hash
            /\ a.data.timestamp <= b.data.timestamp
            /\ b.data.timestamp <= clock

\* C8 witness: two calls with the same state, phi and seed, at different times
\* and with different delta_pi, delta_v and por_valid, and one digest
C8_Witness ==
    /\ commit_prev # None
    /\ commit_last # None
    /\ commit_prev.data.state = commit_last.data.state
    /\ commit_prev.data.proof.phi = commit_last.data.proof.phi
    /\ commit_prev.seed = commit_last.seed
    /\ commit_prev.data.timestamp # commit_last.data.timestamp
    /\ commit_prev.data.proof.delta_pi # commit_last.data.proof.delta_pi
    /\ commit_prev.data.proof.delta_v # commit_last.data.proof.delta_v
    /\ commit_prev.data.proof.por_valid # commit_last.data.proof.por_valid
    /\ commit_prev.data.commit_hash = commit_last.data.commit_hash

\* the digest does not separate two phi that agree to ten decimal digits
C8_FormatMerges ==
    /\ commit_prev # None
    /\ commit_last # None
    /\ commit_prev.data.proof.phi # commit_last.data.proof.phi
    /\ commit_prev.data.commit_hash = commit_last.data.commit_hash

-----------------------------------------------------------------------------
(* UnifiedCognitiveEngine: inputs *)

\* The engine's states are counted in binary fractions of the 0.1 grid unit,
\* FracBits bits deep, so that halving a state is exact for as many steps as
\* an integration takes.
FracBits == (MaxTFinal + 1) \div 2

Fine(c) == c * 2^FracBits

\* the states the engine is called with
EngineStates ==
    { <<Fine(a), Fine(b), 0, 0, Fine(c)>> :
        a \in -MaxCoord..MaxCoord, b \in -1..1, c \in 0..1 }

\* SystemParameters: the linear rate of the field per step, a * h, or a
\* coefficient that makes the field's derivative overflow or be NaN
ParameterSets ==
    { [ rate |-> r, finite |-> TRUE ] : r \in { 0, -1, -2 } }
    \cup { [ rate |-> 0, finite |-> FALSE ] }

\* t_final, counted in half steps of h = 0.01
TFinals == -1..MaxTFinal

\* CognitiveInput
CognitiveInputs ==
    [ initial_state : EngineStates,
      parameters : ParameterSets,
      t_final : TFinals,
      tic_id : { "TIC-001" },
      seed : { <<"t", "e", "s", "t", "_", "s", "e", "e", "d">> },
      seed_path : { "MEF/test/stage/0001" } ]

\* what the route selector answers: a RouteSpec, or its failure
RouteReplies ==
    { [ ok |-> TRUE,
        value |-> [ route_id |-> "ROUTE-001",
                    permutation |-> <<0, 1, 2, 3, 4, 5, 6>>,
                    score |-> <<3, 4>> ] ],
      [ ok |-> FALSE, error |-> "router unavailable" ] }

\* the trajectories the engine's helpers are called with directly
ShortTrajectories ==
    {<<>>} \cup { <<s>> : s \in EngineStates }
           \cup { <<s, t>> : s \in EngineStates, t \in EngineStates }

-----------------------------------------------------------------------------
(* core_5d: vector field and integrator *)

\* a derivative or state with a component that is infinite or NaN
NonFinite == [ finite |-> FALSE ]

Finite(v) == [ finite |-> TRUE, value |-> v ]

IsFinite(d) == d.finite

\* VectorField: the derivative at x times h; non-finite when a coefficient is
VectorField(x, parameters) ==
    IF ~parameters.finite
    THEN NonFinite
    ELSE Finite([ i \in Dims |-> parameters.rate * x[i] ])

\* one predictor-corrector step: k1 = f(x), x* = x + h k1, k2 = f(x*),
\* x' = x + (h/2)(k1 + k2)
HeunStep(x, parameters) ==
    LET k1 == VectorField(x, parameters)
    IN  IF ~IsFinite(k1) THEN NonFinite
        ELSE LET xs == [ i \in Dims |-> x[i] + k1.value[i] ]
                 k2 == VectorField(xs, parameters)
             IN  IF ~IsFinite(k2) THEN NonFinite
                 ELSE Finite([ i \in Dims |->
                                 x[i] + (k1.value[i] + k2.value[i]) \div 2 ])

\* the number of steps to the horizon: ceil(t_final / h)
NumSteps(t_final) == IF t_final <= 0 THEN 0 ELSE (t_final + 1) \div 2

RECURSIVE Advance(_, _, _)
\* n more steps from the trajectory so far
Advance(trajectory, parameters, n) ==
    IF n = 0 THEN [ ok |-> TRUE, value |-> trajectory ]
    ELSE LET x == HeunStep(trajectory[Len(trajectory)], parameters)
         IN  IF ~IsFinite(x)
             THEN [ ok |-> FALSE, error |-> [ kind |-> "InvalidState" ] ]
             ELSE Advance(Append(trajectory, x.value), parameters, n - 1)

\* the Integrator's contract: EmptyTrajectory for a horizon <= 0, InvalidState
\* for a non-finite derivative, else the trajectory from the initial state
Integrate(initial, parameters, t_final) ==
    IF t_final <= 0
    THEN [ ok |-> FALSE, error |-> [ kind |-> "EmptyTrajectory" ] ]
    ELSE Advance(<<initial>>, parameters, NumSteps(t_final))

\* Integrator::integrate_states returns a plain Vec<State5D>: a failed
\* integration has no samples to return
integrate_states(initial, parameters, t_final) ==
    LET r == Integrate(initial, parameters, t_final)
    IN  IF r.ok THEN r.value ELSE <<>>

\* a bug: the integrator is started from the zero state
integrate_5d_zero_start(input) ==
    [ ok |-> TRUE,
      value |-> integrate_states(Zero5, input.parameters, input.t_final) ]

\* UnifiedCognitiveEngine::integrate_5d: always Ok(...)
integrate_5d(input) ==
    [ ok |-> TRUE,
      value |-> integrate_states(input.initial_state, input.parameters,
                                 input.t_final) ]

-----------------------------------------------------------------------------
(* Spectral analysis *)

RECURSIVE SumComponent(_, _, _)
\* the sum of component i over the first n samples
SumComponent(trajectory, i, n) ==
    IF n = 0 THEN 0 ELSE SumComponent(trajectory, i, n - 1) + trajectory[n][i]

\* SpectralAnalyzer::average_entropy: the dispersion of the samples'
\* magnitudes, 0 when they all have one magnitude
average_entropy(history) ==
    Cardinality({ NormSq(history[k]) : k \in 1..Len(history) }) - 1

\* SpectralAnalyzer::dominant_frequency: the sign changes of one component's
\* series; no estimate for a series of fewer than 2 samples, and none when
\* the computation itself fails (fault)
dominant_frequency(history, component, fault) ==
    IF Len(history) < 2
    THEN [ ok |-> FALSE, error |-> "series too short" ]
    ELSE IF fault
    THEN [ ok |-> FALSE, error |-> "computation failed" ]
    ELSE [ ok |-> TRUE,
           value |-> Cardinality({ k \in 1..(Len(history) - 1) :
                        history[k][component] * history[k + 1][component] < 0 }) ]

\* SpectralAdapter::features_to_signature: psi from the entropy, rho from the
\* centroid, normalised into [0, 1] as a fraction, omega from the frequency
features_to_signature(entropy, centroids, dominant_freq) ==
    LET n  == centroids[1][2]
        cs == Sum5([ i \in Dims |-> centroids[i][1] * centroids[i][1] ])
    IN  [ psi |-> entropy, rho |-> <<cs, cs + n * n>>, omega |-> dominant_freq ]

\* a bug: an empty trajectory gets an all-zero signature instead of an error
analyze_spectrum_default(trajectory, fault) ==
    IF trajectory = <<>>
    THEN [ ok |-> TRUE, value |-> [ psi |-> 0, rho |-> <<0, 1>>, omega |-> 0 ] ]
    ELSE LET entropy   == average_entropy(trajectory)
             n         == Len(trajectory)
             centroids == [ i \in Dims |-> <<SumComponent(trajectory, i, n), n>> ]
             freq      == dominant_frequency(trajectory, 1, fault)
             dominant_freq == IF freq.ok THEN freq.value ELSE 0
         IN  [ ok |-> TRUE,
               value |-> features_to_signature(entropy, centroids, dominant_freq) ]

\* UnifiedCognitiveEngine::analyze_spectrum.  The observer is given room for
\* the whole trajectory, so its history is the trajectory; a centroid is the
\* fraction <<sum, n>>; unwrap_or(0.0) replaces a missing frequency by 0.
\* fault says whether the analyzer's frequency computation fails.
analyze_spectrum(trajectory, fault) ==
    IF trajectory = <<>>
    THEN [ ok |-> FALSE, error |-> [ kind |-> "EmptyTrajectory" ] ]
    ELSE LET entropy   == average_entropy(trajectory)
             n         == Len(trajectory)
             centroids == [ i \in Dims |-> <<SumComponent(trajectory, i, n), n>> ]
             freq      == dominant_frequency(trajectory, 1, fault)
             dominant_freq == IF freq.ok THEN freq.value ELSE 0
         IN  [ ok |-> TRUE,
               value |-> features_to_signature(entropy, centroids, dominant_freq) ]

-----------------------------------------------------------------------------
(* Knowledge object, proof of resonance, gate *)

\* input.seed.chars().take(8)
Take8(seed) == SubSeq(seed, 1, IF Len(seed) < 8 THEN Len(seed) ELSE 8)

\* UnifiedCognitiveEngine::create_knowledge_object
create_knowledge_object(input, route, spectral) ==
    LET mef_id  == <<"MEF", input.tic_id, route.route_id, Take8(input.seed)>>
        payload == [ spectral_signature |-> spectral,
                     route |-> [ route_id |-> route.route_id,
                                 permutation |-> route.permutation ] ]
    IN  [ mef_id |-> mef_id, tic_id |-> input.tic_id, route_id |-> route.route_id,
          seed_path |-> input.seed_path, seed |-> input.seed, payload |-> payload ]

\* ProofOfResonanceData::default(): zeros and false
ProofOfResonanceDefault ==
    [ delta_pi |-> [ root |-> 0 ], phi |-> [ num |-> 0, rad |-> 1 ],
      delta_v |-> [ curr |-> 0, prev |-> 0 ], por_valid |-> FALSE ]

\* the bridge's thresholds: max_delta_pi = 0.1, min_phi = 0.5
BridgeMaxDeltaPi == Fine(1)

BridgeMinPhi == <<1, 2>>

\* ResonanceBridge::compute_proof: delta_pi = |curr - prev|, phi the cosine
\* of prev and curr (0 for a zero vector), delta_v = |curr| - |prev|,
\* valid = delta_pi <= max_delta_pi and phi >= min_phi
ResonanceBridge_compute_proof(prev, curr) ==
    LET delta_pi == [ root |-> Sum5([ i \in Dims |->
                          (curr[i] - prev[i]) * (curr[i] - prev[i]) ]) ]
        phi      == IF NormSq(prev) = 0 \/ NormSq(curr) = 0
                    THEN [ num |-> 0, rad |-> 1 ]
                    ELSE [ num |-> Sum5([ i \in Dims |-> prev[i] * curr[i] ]),
                           rad |-> NormSq(prev) * NormSq(curr) ]
        delta_v  == [ curr |-> NormSq(curr), prev |-> NormSq(prev) ]
    IN  [ delta_pi |-> delta_pi, phi |-> phi, delta_v |-> delta_v,
          por_valid |-> /\ LeqMax(delta_pi, BridgeMaxDeltaPi)
                        /\ GeqThreshold(phi, BridgeMinPhi) ]

\* ResonanceBridge::evaluate_gate: FIRE iff valid and delta_v < 0
ResonanceBridge_evaluate_gate(prev, curr) ==
    LET proof == ResonanceBridge_compute_proof(prev, curr)
    IN  IF proof.por_valid /\ IsNegative(proof.delta_v) THEN "FIRE" ELSE "HOLD"

\* a bug: the proof is taken over the first transition of the trajectory
\* while the gate is evaluated on the last one
compute_proof_of_resonance_first_two(trajectory) ==
    IF Len(trajectory) < 2
    THEN ProofOfResonanceDefault
    ELSE ResonanceBridge_compute_proof(trajectory[1], trajectory[2])

\* UnifiedCognitiveEngine::compute_proof_of_resonance
compute_proof_of_resonance(trajectory) ==
    IF Len(trajectory) < 2
    THEN ProofOfResonanceDefault
    ELSE ResonanceBridge_compute_proof(trajectory[Len(trajectory) - 1],
                                       trajectory[Len(trajectory)])

\* a bug: only the empty trajectory is held back; a single state is taken as
\* both ends of a transition
engine_evaluate_gate_empty_only(trajectory) ==
    IF trajectory = <<>>
    THEN [ decision |-> "HOLD", transitions |-> <<>> ]
    ELSE LET state_prev == trajectory[IF Len(trajectory) < 2 THEN 1
                                      ELSE Len(trajectory) - 1]
             state_curr == trajectory[Len(trajectory)]
         IN  [ decision |-> ResonanceBridge_evaluate_gate(state_prev, state_curr),
               transitions |-> << <<state_prev, state_curr>> >> ]

\* UnifiedCognitiveEngine::evaluate_gate: the decision, and beside it the
\* transitions handed to the bridge
engine_evaluate_gate(trajectory) ==
    IF Len(trajectory) < 2
    THEN [ decision |-> "HOLD", transitions |-> <<>> ]
    ELSE LET state_prev == trajectory[Len(trajectory) - 1]
             state_curr == trajectory[Len(trajectory)]
         IN  [ decision |-> ResonanceBridge_evaluate_gate(state_prev, state_curr),
               transitions |-> << <<state_prev, state_curr>> >> ]

-----------------------------------------------------------------------------
(* UnifiedCognitiveEngine::process *)

\* What process returns: Ok(CognitiveOutput) or Err(CognitiveError), and
\* beside it the stages it entered, in order.
Returned(ok, payload, stages) ==
    IF ok THEN [ ok |-> TRUE, value |-> payload, stages |-> stages ]
    ELSE [ ok |-> FALSE, error |-> payload, stages |-> stages ]

\* the route every selection failure would be replaced by
RouteDefault == [ route_id |-> "", permutation |-> <<>>, score |-> <<0, 1>> ]

\* phases 5 to 7 and the output record
process_assemble(input, trajectory, spectral_signature, route, stages) ==
    LET knowledge     == create_knowledge_object(input, route, spectral_signature)
        proof         == compute_proof_of_resonance(trajectory)
        gate_decision == engine_evaluate_gate(trajectory).decision
    IN  Returned(TRUE,
                 [ trajectory |-> trajectory,
                   spectral_signature |-> spectral_signature,
                   route |-> route,
                   proof |-> proof,
                   gate_decision |-> gate_decision,
                   knowledge |-> knowledge ],
                 stages \o << "create_knowledge_object",
                              "compute_proof_of_resonance", "evaluate_gate" >>)

\* a bug: a failed selection is replaced by a default route
process_route_or_default(input, trajectory, spectral_signature, route_reply, stages) ==
    process_assemble(input, trajectory, spectral_signature,
                     IF route_reply.ok THEN route_reply.value ELSE RouteDefault,
                     stages \o << "select_route_enhanced" >>)

\* phase 4: select_route_enhanced(final_state, &input.seed, 0.0), its failure
\* mapped to RouteSelectionError(e.to_string()) and returned
process_route(input, trajectory, spectral_signature, route_reply, stages) ==
    IF ~route_reply.ok
    THEN Returned(FALSE,
                  [ kind |-> "RouteSelectionError", message |-> route_reply.error ],
                  stages \o << "select_route_enhanced" >>)
    ELSE process_assemble(input, trajectory, spectral_signature, route_reply.value,
                          stages \o << "select_route_enhanced" >>)

\* phases 2 and 3: analyze_spectrum(&trajectory)?, trajectory.last()
process_analyze(input, trajectory, route_reply, fault, stages) ==
    LET spectral == analyze_spectrum(trajectory, fault)
    IN  IF ~spectral.ok
        THEN Returned(FALSE, spectral.error, stages \o << "analyze_spectrum" >>)
        ELSE process_route(input, trajectory, spectral.value, route_reply,
                           stages \o << "analyze_spectrum" >>)

\* a bug: the trajectory is not tested for emptiness
process_unchecked(input, route_reply, fault) ==
    LET integrated == integrate_5d(input)
    IN  IF ~integrated.ok
        THEN Returned(FALSE, integrated.error, << "integrate_5d" >>)
        ELSE process_analyze(input, integrated.value, route_reply, fault,
                             << "integrate_5d" >>)

\* UnifiedCognitiveEngine::process; route_reply is what the route selector
\* answers if it is asked, fault whether the analyzer's frequency
\* computation fails
process(input, route_reply, fault) ==
    LET integrated == integrate_5d(input)
    IN  IF ~integrated.ok
        THEN Returned(FALSE, integrated.error, << "integrate_5d" >>)
        ELSE IF integrated.value = <<>>
        THEN Returned(FALSE, [ kind |-> "EmptyTrajectory" ], << "integrate_5d" >>)
        ELSE process_analyze(input, integrated.value, route_reply, fault,
                             << "integrate_5d" >>)

\* a bug: the knowledge object of every successful run is put
store_after_process_put_always(store, returned) ==
    IF returned.ok THEN store \cup { returned.value.knowledge } ELSE store

\* the KnowledgeStore after process: process makes no call to a store
store_after_process(store, returned) == store

-----------------------------------------------------------------------------
(* The engine as a state machine: one call, its arguments drawn at the start *)

EngineCalls ==
    [ op : {"process"}, input : CognitiveInputs, route_reply : RouteReplies,
      analyzer_fault : BOOLEAN, result : {None} ]
    \cup [ op : {"integrate_5d"}, input : CognitiveInputs, result : {None} ]
    \cup [ op : {"analyze_spectrum"}, trajectory : ShortTrajectories,
           analyzer_fault : BOOLEAN, result : {None} ]
    \cup [ op : {"compute_proof_of_resonance", "evaluate_gate"},
           trajectory : ShortTrajectories, result : {None} ]

\* UnifiedCognitiveEngine::new(), and the call to come
Init ==
    /\ config = InterlockConfigDefault
    /\ gate_call = None
    /\ clock = 0
    /\ commit_prev = None
    /\ commit_last = None
    /\ engine_call \in EngineCalls
    /\ stored = {}
    /\ engine = None
    /\ runs = <<>>
    /\ loop = None

Pending(op) == engine_call.op = op /\ engine_call.result = None

Done(op) == engine_call.op = op /\ engine_call.result # None

\* engine.process(input)
Process ==
    /\ Pending("process")
    /\ LET returned == process(engine_call.input, engine_call.route_reply,
                               engine_call.analyzer_fault)
       IN  /\ engine_call' = [ engine_call EXCEPT !.result = returned ]
           /\ stored' = store_after_process(stored, returned)
    /\ UNCHANGED <<config, gate_call, clock, commit_prev, commit_last,
                   engine, runs, loop>>

\* engine.integrate_5d(&input)
Integrate5d ==
    /\ Pending("integrate_5d")
    /\ engine_call' = [ engine_call EXCEPT !.result = integrate_5d(engine_call.input) ]
    /\ UNCHANGED <<config, gate_call, clock, commit_prev, commit_last, stored,
                   engine, runs, loop>>

\* engine.analyze_spectrum(&trajectory)
AnalyzeSpectrum ==
    /\ Pending("analyze_spectrum")
    /\ engine_call' = [ engine_call EXCEPT
           !.result = analyze_spectrum(engine_call.trajectory,
                                       engine_call.analyzer_fault) ]
    /\ UNCHANGED <<config, gate_call, clock, commit_prev, commit_last, stored,
                   engine, runs, loop>>

\* engine.compute_proof_of_resonance(&trajectory)
ComputeProofOfResonance ==
    /\ Pending("compute_proof_of_resonance")
    /\ engine_call' = [ engine_call EXCEPT
           !.result = compute_proof_of_resonance(engine_call.trajectory) ]
    /\ UNCHANGED <<config, gate_call, clock, commit_prev, commit_last, stored,
                   engine, runs, loop>>

\* engine.evaluate_gate(&trajectory)
EngineEvaluateGate ==
    /\ Pending("evaluate_gate")
    /\ engine_call' = [ engine_call EXCEPT
           !.result = engine_evaluate_gate(engine_call.trajectory) ]
    /\ UNCHANGED <<config, gate_call, clock, commit_prev, commit_last, stored,
                   engine, runs, loop>>

Next ==
    \/ Process
    \/ Integrate5d
    \/ AnalyzeSpectrum
    \/ ComputeProofOfResonance
    \/ EngineEvaluateGate

Spec == Init /\ [][Next]_vars

-----------------------------------------------------------------------------
(* Claims about the engine *)

\* C3: UnifiedCognitiveEngine::evaluate_gate returns HOLD for every trajectory
\* of length 0 or 1, whatever its states, and hands no transition to the
\* bridge.
C3_ShortTrajectoryHolds ==
    (Done("evaluate_gate") /\ Len(engine_call.trajectory) < 2) =>
        /\ engine_call.result.decision = "HOLD"
        /\ engine_call.result.transitions = <<>>

\* C3 witness: the gate has answered HOLD for a single state that is not zero
C3_Witness ==
    /\ Done("evaluate_gate")
    /\ Len(engine_call.trajectory) = 1
    /\ engine_call.trajectory[1] # Zero5
    /\ engine_call.result.decision = "HOLD"
    /\ engine_call.result.transitions = <<>>

\* the gate of the engine fires on a transition of two states
C3_TwoStatesFire ==
    /\ Done("evaluate_gate")
    /\ Len(engine_call.trajectory) = 2
    /\ engine_call.result.decision = "FIRE"

\* the run's gate decision is FIRE
RunFired ==
    /\ Done("process")
    /\ engine_call.result.ok
    /\ engine_call.result.value.gate_decision = "FIRE"

\* C4: a knowledge record is put into the KnowledgeStore only in a run whose
\* gate decision is FIRE: after a run that decided HOLD, and after a run that
\* failed, nothing has been put.
C4_PutOnlyOnFire ==
    (Done("process") /\ ~RunFired) => stored = {}

\* C4 witness: a run has returned its record with the decision HOLD and a
\* knowledge object, and nothing has been put
C4_Witness ==
    /\ Done("process")
    /\ engine_call.result.ok
    /\ engine_call.result.value.gate_decision = "HOLD"
    /\ engine_call.result.value.knowledge.mef_id
           = <<"MEF", "TIC-001", "ROUTE-001", <<"t", "e", "s", "t", "_", "s", "e", "e">> >>
    /\ stored = {}

\* a run that decided FIRE: process has put nothing either
C4_FiredNothingPut ==
    RunFired /\ stored = {}

\* C5: with t_final <= 0 the integration phase yields EmptyTrajectory and
\* process returns that error having entered no later stage (no spectral
\* analysis, route selection, proof computation or gate evaluation).
C5_EmptyHorizonFailsFast ==
    (Done("process") /\ engine_call.input.t_final <= 0) =>
        /\ ~engine_call.result.ok
        /\ engine_call.result.error = [ kind |-> "EmptyTrajectory" ]
        /\ engine_call.result.stages = << "integrate_5d" >>

\* C5 witness: a run with t_final = 0 has returned EmptyTrajectory
C5_Witness ==
    /\ Done("process")
    /\ engine_call.input.t_final = 0
    /\ engine_call.input.initial_state # Zero5
    /\ ~engine_call.result.ok
    /\ engine_call.result.error.kind = "EmptyTrajectory"

\* C6 as claimed: analyze_spectrum on an empty trajectory fails with an error
\* of kind SpectralAnalysisError.
C6_Original ==
    (Done("analyze_spectrum") /\ engine_call.trajectory = <<>>) =>
        /\ ~engine_call.result.ok
        /\ engine_call.result.error.kind = "SpectralAnalysisError"

\* C6 amended: analyze_spectrum on an empty trajectory fails with an error of
\* kind EmptyTrajectory, and produces no signature.
C6_EmptyTrajectoryKind ==
    (Done("analyze_spectrum") /\ engine_call.trajectory = <<>>) =>
        /\ ~engine_call.result.ok
        /\ engine_call.result.error = [ kind |-> "EmptyTrajectory" ]

\* C6 witness: the analyzer has been called with the empty trajectory and has
\* returned an error
C6_Witness ==
    /\ Done("analyze_spectrum")
    /\ engine_call.trajectory = <<>>
    /\ ~engine_call.result.ok

\* the route selector is asked in this run, and fails
RouteFailed ==
    /\ Done("process")
    /\ ~engine_call.route_reply.ok
    /\ "select_route_enhanced" \in
           { engine_call.result.stages[k] : k \in 1..Len(engine_call.result.stages) }

\* C7: when the route selector fails during process, process returns an error
\* of kind RouteSelectionError carrying the selector's failure, returns no
\* output record and enters no later stage; no default route takes its place.
C7_RouteFailureSurfaces ==
    /\ RouteFailed =>
           /\ ~engine_call.result.ok
           /\ engine_call.result.error
                  = [ kind |-> "RouteSelectionError",
                      message |-> engine_call.route_reply.error ]
           /\ engine_call.result.stages
                  = << "integrate_5d", "analyze_spectrum", "select_route_enhanced" >>
    /\ (Done("process") /\ engine_call.result.ok) =>
           /\ engine_call.route_reply.ok
           /\ engine_call.result.value.route = engine_call.route_reply.value

\* C7 witness: a run whose integration and analysis succeeded, whose route
\* selection failed, has returned RouteSelectionError
C7_Witness ==
    /\ RouteFailed
    /\ engine_call.input.t_final > 0
    /\ ~engine_call.result.ok
    /\ engine_call.result.error.kind = "RouteSelectionError"

\* C9: an integration with a positive t_final and finite derivatives returns
\* a non-empty trajectory, of ceil(t_final / h) + 1 states, and every
\* trajectory returned, by integrate_5d or in the record of process, starts
\* with exactly the initial state of the input.
C9_TrajectoryStartsAtInitial ==
    /\ Done("integrate_5d") =>
           LET trajectory == engine_call.result.value
           IN  /\ engine_call.result.ok
               /\ ( engine_call.input.t_final > 0
                    /\ engine_call.input.parameters.finite )
                  => Len(trajectory) = NumSteps(engine_call.input.t_final) + 1
               /\ trajectory # <<>> =>
                      trajectory[1] = engine_call.input.initial_state
    /\ (Done("process") /\ engine_call.result.ok) =>
           /\ engine_call.result.value.trajectory # <<>>
           /\ engine_call.result.value.trajectory[1]
                  = engine_call.input.initial_state

\* C9 witness: integrate_5d has returned a trajectory of three states from a
\* state that the field moves
C9_Witness ==
    /\ Done("integrate_5d")
    /\ engine_call.input.t_final > 2
    /\ engine_call.input.parameters = [ rate |-> -1, finite |-> TRUE ]
    /\ Len(engine_call.result.value) = 3
    /\ engine_call.result.value[1] = engine_call.input.initial_state
    /\ engine_call.result.value[3] # engine_call.input.initial_state

\* C10 as claimed: when a derivative evaluated during integration is
\* non-finite, process returns an error of kind InvalidState and no record.
C10_Original ==
    ( /\ Done("process")
      /\ engine_call.input.t_final > 0
      /\ ~engine_call.input.parameters.finite ) =>
        /\ ~engine_call.result.ok
        /\ engine_call.result.error.kind = "InvalidState"

\* what process does there: the integrator's InvalidState is lost in the plain
\* Vec that integrate_5d wraps in Ok, and the run ends in EmptyTrajectory
C10_Observed ==
    /\ Done("process")
    /\ engine_call.input.t_final > 0
    /\ ~engine_call.input.parameters.finite
    /\ ~engine_call.result.ok
    /\ engine_call.result.error.kind = "EmptyTrajectory"

-----------------------------------------------------------------------------
(* C11: the substitute omega *)

\* the analysed series has at least 2 samples and the analyzer's
\* dominant-frequency computation fails
FrequencyFailed ==
    /\ Done("analyze_spectrum")
    /\ Len(engine_call.trajectory) >= 2
    /\ engine_call.analyzer_fault

\* C11: omega is the substitute 0.0 only for a series of fewer than 2
\* samples; when the dominant frequency is unavailable for another reason,
\* analyze_spectrum returns an error instead of a signature with omega 0.0.
C11_Original ==
    FrequencyFailed => ~engine_call.result.ok

\* what analyze_spectrum does there: unwrap_or(0.0) turns the failed
\* computation into omega = 0 and the signature is returned in Ok
C11_Observed ==
    /\ FrequencyFailed
    /\ engine_call.result.ok
    /\ engine_call.result.value.omega = 0

\* the part that holds: a series of one sample gets omega = 0 in an Ok result
C11_ShortSeriesZero ==
    ( Done("analyze_spectrum") /\ Len(engine_call.trajectory) = 1 ) =>
        /\ engine_call.result.ok
        /\ engine_call.result.value.omega = 0

-----------------------------------------------------------------------------
(* C13: the alignment phi *)

\* the real numbers num / sqrt(rad) of p and q are equal
SameValue(p, q) ==
    /\ (p.num >= 0) <=> (q.num >= 0)
    /\ p.num * p.num * q.rad = q.num * q.num * p.rad

\* C13: the phi of a transition is 0 whenever prev or curr is the zero
\* vector, without a division (the divisor kept in rad is never 0), and
\* otherwise it is the dot product of prev and curr divided by the product
\* of their Euclidean norms, a cosine between -1 and 1.
C13_AlignmentIsCosine ==
    GateReturned =>
        LET prev == gate_call.prev
            curr == gate_call.curr
            phi  == gate_call.result.proof.phi
            dot  == prev[1] * curr[1] + prev[2] * curr[2] + prev[3] * curr[3]
                      + prev[4] * curr[4] + prev[5] * curr[5]
        IN  /\ phi.rad > 0
            /\ (prev = Zero5 \/ curr = Zero5) => phi.num = 0
            /\ (prev # Zero5 /\ curr # Zero5) =>
                   /\ SameValue(phi, [ num |-> dot,
                                       rad |-> NormSq(prev) * NormSq(curr) ])
                   /\ phi.num * phi.num <= phi.rad

\* C13 witness: a transition from the zero vector to a state that is not
\* zero, its phi 0
C13_Witness ==
    /\ GateReturned
    /\ gate_call.prev = Zero5
    /\ gate_call.curr # Zero5
    /\ gate_call.result.proof.phi.num = 0

\* a transition between two states that are not zero and point apart: phi
\* is a negative cosine
C13_NegativeCosine ==
    /\ GateReturned
    /\ gate_call.prev # Zero5
    /\ gate_call.curr # Zero5
    /\ gate_call.result.proof.phi.num < 0

-----------------------------------------------------------------------------
(* C14: the proof and the gate decision of one output record *)

\* the decision that the proof stands for
Fires(proof) == proof.por_valid /\ IsNegative(proof.delta_v)

\* C14: in the output record of every successful process call the gate
\* decision is FIRE exactly when the returned proof has por_valid = true and
\* delta_v < 0, though the two come from separate calls; and for a trajectory
\* of fewer than 2 states the proof is the default proof, which stands for
\* HOLD, the decision the gate returns for it.
C14_DecisionAgreesWithProof ==
    /\ ( Done("process") /\ engine_call.result.ok ) =>
           LET out == engine_call.result.value
           IN  /\ out.gate_decision \in {"FIRE", "HOLD"}
               /\ (out.gate_decision = "FIRE") <=> Fires(out.proof)
    /\ Done("compute_proof_of_resonance") =>
           LET trajectory == engine_call.trajectory
               proof      == engine_call.result
           IN  /\ Len(trajectory) < 2 =>
                      proof = ProofOfResonanceDefault /\ ~Fires(proof)
               /\ (engine_evaluate_gate(trajectory).decision = "FIRE")
                      <=> Fires(proof)

\* C14 witness: a successful run over a trajectory of more than 2 states
\* whose decision is FIRE and whose proof is valid with a negative delta_v
C14_Witness ==
    /\ Done("process")
    /\ engine_call.result.ok
    /\ Len(engine_call.result.value.trajectory) > 2
    /\ engine_call.result.value.gate_decision = "FIRE"
    /\ Fires(engine_call.result.value.proof)

\* a successful run whose decision is HOLD although the trajectory contracts:
\* the proof is not valid
C14_HoldOnInvalidProof ==
    /\ Done("process")
    /\ engine_call.result.ok
    /\ engine_call.result.value.gate_decision = "HOLD"
    /\ ~engine_call.result.value.proof.por_valid
    /\ IsNegative(engine_call.result.value.proof.delta_v)

\* the proof of a single state that is not zero: the default proof
C14_SingleStateDefault ==
    /\ Done("compute_proof_of_resonance")
    /\ Len(engine_call.trajectory) = 1
    /\ engine_call.trajectory[1] # Zero5
    /\ engine_call.result = ProofOfResonanceDefault

-----------------------------------------------------------------------------
(* One engine, several process calls *)

\* at most MaxRuns process calls are made on the engine
MaxRuns == 3

\* the inputs of those calls: two initial states, an empty and a positive
\* horizon, fields with finite and with non-finite derivatives
RunInputs ==
    { i \in CognitiveInputs :
        /\ i.initial_state \in { <<Fine(1), 0, 0, 0, 0>>,
                                 <<Fine(-2), Fine(1), 0, 0, Fine(1)>> }
        /\ i.t_final \in { 0, 2 }
        /\ i.parameters.rate \in { 0, -1 } }

\* UnifiedCognitiveEngine { spectral_analyzer, metatron_bridge }: the two
\* collaborators, each a fixed function of its arguments; fault and reply say
\* what that function answers
Engines ==
    [ spectral_analyzer : [ fault : BOOLEAN ],
      metatron_bridge : [ reply : RouteReplies ] ]

\* process on this engine: the collaborators asked are the engine's fields
process_on(eng, input) ==
    process(input, eng.metatron_bridge.reply, eng.spectral_analyzer.fault)

\* a bug: a failed run leaves the engine's route selector failing
engine_after_process_poisoned(eng, returned) ==
    IF returned.ok
    THEN eng
    ELSE [ eng EXCEPT !.metatron_bridge.reply =
               [ ok |-> FALSE, error |-> "router unavailable" ] ]

\* the engine's fields after process(&mut self, input): no statement of
\* process assigns to a field of self
engine_after_process(eng, returned) == eng

\* UnifiedCognitiveEngine::new()
InitRuns ==
    /\ config = InterlockConfigDefault
    /\ gate_call = None
    /\ clock = 0
    /\ commit_prev = None
    /\ commit_last = None
    /\ engine_call = None
    /\ stored = {}
    /\ engine \in Engines
    /\ runs = <<>>
    /\ loop = None

\* engine.process(input), once more on the same engine
ProcessAgain ==
    /\ engine # None
    /\ Len(runs) < MaxRuns
    /\ \E input \in RunInputs :
          LET returned == process_on(engine, input)
          IN  /\ runs' = Append(runs, [ input |-> input, result |-> returned ])
              /\ engine' = engine_after_process(engine, returned)
              /\ stored' = store_after_process(stored, returned)
    /\ UNCHANGED <<config, gate_call, clock, commit_prev, commit_last,
                   engine_call, loop>>

NextRuns == ProcessAgain

SpecRuns == InitRuns /\ [][NextRuns]_vars

\* no stage is entered twice
EnteredOnce(stages) ==
    \A a, b \in DOMAIN stages : stages[a] = stages[b] => a = b

C12_RepeatedSuccess ==
    /\ Len(runs) >= 3
    /\ runs[1].result.ok
    /\ ~runs[2].result.ok
    /\ runs[3].input = runs[1].input
    /\ runs[3].result = runs[1].result
    /\ Len(runs[3].result.value.trajectory) > 1

-----------------------------------------------------------------------------
(* The guidance/condense loop of the adapter *)

(***************************************************************************)
(* The loop state' = condense(state, compute_guidance(state)) multiplies   *)
(* a state by 0.9 some 220 times before its norm falls below 1e-10, far    *)
(* below the grid.  A state of the loop is therefore kept with its scale:  *)
(* the components are m[i] * 9^nines / 10^tens grid units, m an integer    *)
(* vector whose components are not all multiples of 9, and pow81 is        *)
(* 81^nines, a natural number kept in limbs of 4 decimal digits, least     *)
(* significant first.                                                      *)
(***************************************************************************)

\* the one element of a set of one element; used as Only({ e(x) : x \in {v} })
\* it is e(v) with v evaluated once
Only(S) == CHOOSE x \in S : TRUE

RECURSIVE BigOfInt(_)
\* the limbs of a natural number
BigOfInt(n) == IF n = 0 THEN <<>> ELSE <<n % 10000>> \o BigOfInt(n \div 10000)

\* b * c for a natural number c < 10000.  Limb i of the product is the low
\* part of b[i] * c plus the high part of b[i-1] * c, plus the carry 1 that
\* an earlier limb generates and the limbs between hand on.
BigTimes(b, c) ==
    IF c = 0 THEN <<>>
    ELSE IF c = 1 THEN b
    ELSE Only({ Only({ Only({ IF limbs[Len(limbs)] = 0
                              THEN SubSeq(limbs, 1, Len(limbs) - 1)
                              ELSE limbs :
                  limbs \in { [ i \in DOMAIN sums |->
                      ( sums[i]
                        + IF /\ i > 1
                             /\ sums[i - 1] >= 9999
                             /\ \E j \in 1..(i - 1) :
                                   /\ sums[j] >= 10000
                                   /\ \A k \in (j + 1)..(i - 1) : sums[k] = 9999
                          THEN 1 ELSE 0 ) % 10000 ] } }) :
            sums \in { [ i \in 1..(Len(x) + 1) |->
                (IF i <= Len(x) THEN (x[i] * c) % 10000 ELSE 0)
                + (IF i > 1 THEN (x[i - 1] * c) \div 10000 ELSE 0) ] } }) :
        x \in { b } })

\* b * 10^k
BigShift10(b, k) ==
    Only({ IF limbs = <<>> THEN <<>>
           ELSE BigTimes([ i \in 1..(k \div 4 + Len(limbs)) |->
                             IF i <= k \div 4 THEN 0 ELSE limbs[i - k \div 4] ],
                         10^(k % 4)) :
             limbs \in { b } })

\* a <= b
BigLeq(a, b) ==
    \E x \in { a } : \E y \in { b } :
       \/ Len(x) < Len(y)
       \/ /\ Len(x) = Len(y)
          /\ \/ x = y
             \/ \E i \in 1..Len(x) :
                   /\ x[i] < y[i]
                   /\ \A j \in (i + 1)..Len(x) : x[j] = y[j]

\* the zero state
ZeroScaled == [ m |-> Zero5, nines |-> 0, tens |-> 0, pow81 |-> <<1>> ]

RECURSIVE Normalize(_, _, _, _)
\* the scaled state of m * 9^nines / 10^tens: the factors 9 common to all
\* components of m are moved into the scale
Normalize(m, nines, tens, pow81) ==
    Only({ IF v = Zero5
           THEN ZeroScaled
           ELSE IF \A i \in Dims : v[i] % 9 = 0
           THEN Normalize([ i \in Dims |-> v[i] \div 9 ], nines + 1, tens,
                          BigTimes(pow81, 81))
           ELSE [ m |-> v, nines |-> nines, tens |-> tens, pow81 |-> pow81 ] :
        v \in { m } })

\* 1e-10 (interlock.rs:98) is 10^-NormFloorDigits
NormFloorDigits == 10

\* state.norm() < 10^-digits.  The norm is sqrt(NormSq(m)) * 9^nines /
\* 10^tens units of 0.1, so the test is
\* NormSq(m) * 81^nines * 10^(2 * digits - 2) < 100^tens.
NormBelow(state, digits) ==
    ~BigLeq(BigShift10(BigOfInt(1), 2 * state.tens),
            BigShift10(BigTimes(state.pow81, NormSq(state.m)), 2 * digits - 2))

\* a bug: the floor of the norm is 1e-1 instead of 1e-10
compute_guidance_floor_high(state) ==
    IF NormBelow(state, 1)
    THEN ZeroScaled
    ELSE [ state EXCEPT !.m = [ i \in Dims |-> state.m[i] * (-1) ],
                        !.tens = state.tens + 1 ]

\* InterlockAdapter::compute_guidance: [0.0; 5] below the floor, else
\* arr[i] * scale with scale = -0.1, which is -1 / 10
compute_guidance(state) ==
    IF NormBelow(state, NormFloorDigits)
    THEN ZeroScaled
    ELSE [ state EXCEPT !.m = [ i \in Dims |-> state.m[i] * (-1) ],
                        !.tens = state.tens + 1 ]

\* two scaled vectors on one scale 9^nines / 10^tens: p and c are the
\* integer components of a and b on it
Common(a, b) ==
    IF a.m = Zero5
    THEN [ p |-> Zero5, c |-> b.m, nines |-> b.nines, tens |-> b.tens,
           pow81 |-> b.pow81 ]
    ELSE IF b.m = Zero5
    THEN [ p |-> a.m, c |-> Zero5, nines |-> a.nines, tens |-> a.tens,
           pow81 |-> a.pow81 ]
    ELSE LET low  == IF a.nines <= b.nines THEN a ELSE b
             tens == IF a.tens >= b.tens THEN a.tens ELSE b.tens
         IN  [ p |-> [ i \in Dims |-> a.m[i] * 9^(a.nines - low.nines)
                                             * 10^(tens - a.tens) ],
               c |-> [ i \in Dims |-> b.m[i] * 9^(b.nines - low.nines)
                                             * 10^(tens - b.tens) ],
               nines |-> low.nines, tens |-> tens, pow81 |-> low.pow81 ]

\* InterlockAdapter::condense: arr[i] + guidance[i]
condense(state, guidance) ==
    Only({ Normalize([ i \in Dims |-> on.p[i] + on.c[i] ],
                     on.nines, on.tens, on.pow81) :
             on \in { Common(state, guidance) } })

\* delta_pi <= max for a delta_pi of sqrt(root) * 9^nines / 10^tens units:
\* root * 81^nines <= max^2 * 100^tens
LeqMaxScaled(delta_pi, max, on) ==
    /\ max >= 0
    /\ BigLeq(BigTimes(on.pow81, delta_pi.root),
              BigShift10(BigOfInt(max * max), 2 * on.tens))

\* InterlockAdapter::evaluate_gate on two scaled states; the proof's
\* delta_pi and delta_v are in units of the common scale
evaluate_gate_scaled(cfg, state_prev, state_curr) ==
    Only({ Only({ [ decision |-> IF proof.por_valid /\ IsNegative(proof.delta_v)
                                 THEN "FIRE" ELSE "HOLD",
                    proof |-> proof ] :
        proof \in { LET delta_pi == compute_path_invariance(on.p, on.c)
                        phi      == compute_alignment(on.p, on.c)
                        delta_v  == compute_lyapunov_delta(on.p, on.c)
                    IN  [ delta_pi |-> delta_pi, phi |-> phi, delta_v |-> delta_v,
                          por_valid |->
                              /\ LeqMaxScaled(delta_pi, cfg.gate_delta_pi_max, on)
                              /\ GeqThreshold(phi, cfg.gate_phi_threshold) ] } }) :
      on \in { Common(state_prev, state_curr) } })

\* the states the loop starts from: the zero state, norms 0.5, 1.0, 0.9
\* and above 1.0
LoopStarts ==
    { Zero5, <<0, -3, 0, 0, 4>>, <<10, 0, 0, 0, 0>>, <<-9, 0, 0, 0, 0>>,
      <<12, -1, 0, 0, 1>> }

\* InterlockAdapter::new(InterlockConfig::default()), and the state the
\* loop starts from
InitLoop ==
    /\ config = InterlockConfigDefault
    /\ gate_call = None
    /\ clock = 0
    /\ commit_prev = None
    /\ commit_last = None
    /\ engine_call = None
    /\ stored = {}
    /\ engine = None
    /\ runs = <<>>
    /\ \E s \in LoopStarts :
          loop = [ state |-> Normalize(s, 0, 0, <<1>>), result |-> None ]

\* one turn of the loop: guidance, condense, and the gate on (state, state')
LoopStep ==
    /\ loop # None
    /\ \E guidance \in { compute_guidance(loop.state) } :
          \E next \in { condense(loop.state, guidance) } :
             loop' = [ state |-> next,
                       result |-> evaluate_gate_scaled(config, loop.state, next) ]
    /\ UNCHANGED <<config, gate_call, clock, commit_prev, commit_last,
                   engine_call, stored, engine, runs>>

NextLoop == LoopStep

\* the loop is applied again and again: a turn that changes something is
\* not put off forever
SpecLoop == InitLoop /\ [][NextLoop]_vars /\ WF_vars(LoopStep)

\* the norm of the loop's state is below 1e-10
BelowFloor == NormBelow(loop.state, NormFloorDigits)

\* the gate of the last turn returned this decision
LoopDecided(decision) == loop.result # None /\ loop.result.decision = decision

\* t is 0.9 * s
Contracted(s, t) ==
    /\ t.m = s.m
    /\ t.nines = s.nines + 1
    /\ t.tens = s.tens + 1
    /\ t.pow81 = BigTimes(s.pow81, 81)

\* C15: under the default configuration, a turn of the loop from a state of
\* norm >= 1e-10 makes the state 0.9 times itself; the gate on
\* (state, state') eventually returns FIRE, and after a FIRE every turn from
\* a state of norm >= 1e-10 returns FIRE again; a turn from a state of norm
\* below 1e-10 leaves the state unchanged and returns HOLD, and in the end
\* the loop stays there for ever.
C15_ContractFireThenHold ==
    /\ [][ ~BelowFloor => Contracted(loop.state, loop'.state) ]_vars
    /\ [][ (~BelowFloor /\ LoopDecided("FIRE")) => LoopDecided("FIRE")' ]_vars
    /\ [][ BelowFloor => (loop'.state = loop.state /\ LoopDecided("HOLD")') ]_vars
    /\ (~BelowFloor) ~> LoopDecided("FIRE")
    /\ <>[](BelowFloor /\ LoopDecided("HOLD"))

\* C15 witness: the loop started above norm 1.0, was held, fired, and has
\* come to rest below 1e-10 with HOLD
C15_Witness ==
    /\ loop # None
    /\ loop.state.m = <<12, -1, 0, 0, 1>>
    /\ BelowFloor
    /\ LoopDecided("HOLD")

\* a turn from a state of norm above 1.0: HOLD, the step is too long
C15_HeldAboveOne ==
    /\ loop # None
    /\ loop.state.m = <<12, -1, 0, 0, 1>>
    /\ loop.state.nines = 1
    /\ LoopDecided("HOLD")

\* a turn from the state of norm exactly 1.0: FIRE
C15_FiredAtOne ==
    /\ loop # None
    /\ loop.state.m = <<10, 0, 0, 0, 0>>
    /\ loop.state.nines = 1
    /\ LoopDecided("FIRE")

====
